---- MODULE Spec2Model ----
(***************************************************************************)
(* The AI Automation Creator panel (jtenniswood/automator).                *)
(*                                                                         *)
(* The repository holds five variants of the custom element                *)
(* AiAutomationCreator.  One behaviour of this module follows one element  *)
(* of one variant:                                                         *)
(*   "main_single"  main.js 9-373      generateAutomation, polls twice     *)
(*   "main_guided"  main.js 387-803    five questions, createAutomation    *)
(*   "p0_guided"    part_000 3-315     five questions, createAutomation    *)
(*   "p1_single"    part_001 6-273     generateAutomation, one fetch       *)
(*   "p1_prompt"    part_001 285-645   createAutomation, no fetch          *)
(*                                                                         *)
(* Handlers run to completion (single-threaded event loop); a step of the  *)
(* model is one user event, one backend response or one timer firing.      *)
(* A user event is enabled when the template renders its control enabled;  *)
(* each control's condition is read from the template expression that      *)
(* renders that control.  The controls of one template are taken one by    *)
(* one: what a template shows when one of its expressions cannot be        *)
(* evaluated (C27) is not part of the model.                               *)
(***************************************************************************)
EXTENDS Integers, Sequences, FiniteSets, TLC

VARIABLES
  variant,            \* which of the five element classes this element is
  attached,           \* the host has attached the element to the document
  userInput,          \* this.userInput, a sequence of characters
  isProcessing,       \* this.isProcessing
  automationYaml,     \* this.automationYaml
  automationCreated,  \* this.automationCreated
  errorMessage,       \* this.errorMessage (single-shot variants), null or text
  resultMessage,      \* this.resultMessage (p1_prompt)
  conversation,       \* this.conversation, the message log (guided variants)
  currentStep,        \* this.currentStep (guided variants)
  answers,            \* this.automationSteps[i].answer (guided variants)
  buttonDisabled,     \* main_single: the disabled property of the form's button
  nSubmits,           \* submissions accepted so far
  subs,               \* per submission: the log of what it issued and received
  calls,              \* backend calls in flight
  timers,             \* setTimeout timers pending
  unhandled,          \* promise rejections that reached no handler
  strays,             \* Sends made after the last question was answered
  rejected,           \* the handler that returned at its first line in the last step, or ""
  resetAt             \* nSubmits when reset / startOver last ran, 0 before the first

vars == <<variant, attached, userInput, isProcessing, automationYaml,
          automationCreated, errorMessage, resultMessage, conversation,
          currentStep, answers, buttonDisabled, nSubmits, subs, calls,
          timers, unhandled, strays, rejected, resetAt>>

session == <<userInput, isProcessing, automationYaml, automationCreated,
             errorMessage, resultMessage>>
engine  == <<conversation, currentStep, answers>>
flight  == <<nSubmits, subs, calls, timers, unhandled, strays>>
element == <<variant, attached, session, engine, buttonDisabled, flight, resetAt>>

\* The step ran a handler or a callback past its opening test.
Ran == rejected' = ""

\* if (...) return;  as the first statement of handler h
Returned(h) == UNCHANGED element /\ rejected' = h

(***************************************************************************)
(* Bounds and value sets                                                   *)
(***************************************************************************)
MaxSubmits == 2       \* submissions accepted in one behaviour
MaxStray   == 1       \* Sends followed after the last question was answered

Variants == {"main_single", "main_guided", "p0_guided", "p1_single", "p1_prompt"}
Guided   == {"main_guided", "p0_guided"}

\* What the user can type: nothing, a blank, and a text with a leading blank.
Inputs == { <<>>, <<" ">>, <<" ", "a">> }

null      == "<null>"           \* JavaScript null
NoValue   == ""                 \* a response without a result text
NoMessage == ""                 \* an error without a message
Yamls     == {"alias: lights"}  \* result texts the backend can return
ErrMsgs   == {NoMessage, "quota exceeded"}
Automations == {"cfg0"}         \* objects config/automation/config/0 can return

\* String.prototype.trim on a sequence of characters.
RECURSIVE TrimLeft(_)
TrimLeft(s) == IF s # <<>> /\ Head(s) = " " THEN TrimLeft(Tail(s)) ELSE s

RECURSIVE TrimRight(_)
TrimRight(s) ==
  IF s # <<>> /\ s[Len(s)] = " " THEN TrimRight(SubSeq(s, 1, Len(s) - 1)) ELSE s

Trim(s) == TrimRight(TrimLeft(s))

\* JSON.stringify(automation, null, 2)
Stringify(a) == "{\"id\": \"" \o a \o "\"}"

\* error.message used in a string concatenation
MessageText(m) == IF m = NoMessage THEN "undefined" ELSE m

(***************************************************************************)
(* Program constants                                                       *)
(***************************************************************************)
NumSteps     == 5      \* automationSteps.length
InitialDelay == 2000   \* main_single: wait after create_automation
RetryDelay   == 1000   \* main_single: wait before the second get_automation_yaml
DataDelay    == 500    \* p1_single: wait before reading hass.data
FetchBudget  == 2      \* main_single: get_automation_yaml attempts per submission

Question(i) ==
  CASE i = 1 -> "What would you like this automation to do? (Describe in natural language)"
    [] i = 2 -> "When should this automation trigger? (Time, event, condition, etc.)"
    [] i = 3 -> "Which devices or entities should be involved?"
    [] i = 4 -> "Are there any conditions that should be met before the automation runs?"
    [] i = 5 -> "Is there anything else I should know about this automation?"

GenericError    == "Failed to create automation"
ConfirmedText   == "Automation was created successfully and added to your automations.yaml file."
ProcessedText   == "Automation has been processed. Please check your automations.yaml file."
P1FallbackText  == "Automation created successfully. Check your Home Assistant automations list."
PromptFallback  == "Automation created successfully. The YAML is available in your Home Assistant automations.yaml file."
PromptSuccess   == "Automation created successfully! You can find it in your automations.yaml file or in the automation editor."
PromptFailed    == "Failed to create automation. Please try again with a more detailed description."
CreatedMessage  == "I've created your automation! You can find it in your automations.yaml file or in the automation editor."
SorryPrefix     == "Sorry, there was an error creating your automation: "
NoYamlText      == "Automation created successfully, but couldn't retrieve the YAML."

Msg(sender, content) == [sender |-> sender, content |-> content]
FirstPrompt == Msg("assistant", <<Question(1)>>)

(***************************************************************************)
(* The log of a submission: what it issued, what came back, what it set.   *)
(***************************************************************************)
Ev(ev, op, val, ms) == [ev |-> ev, op |-> op, val |-> val, ms |-> ms]

Call(id, op, k, confirmed, desc) ==
  [id |-> id, op |-> op, k |-> k, confirmed |-> confirmed, desc |-> desc]

Timer(id, ms) == [id |-> id, ms |-> ms]

Active(id) == (\E c \in calls : c.id = id) \/ (\E t \in timers : t.id = id)

Logged(id, e) == [subs EXCEPT ![id] = Append(@, e)]

Logged2(id, e1, e2) == [subs EXCEPT ![id] = Append(Append(@, e1), e2)]

\* The log of a new submission; the logs of submissions with nothing pending are dropped.
Opened(id, e) ==
  [i \in {j \in DOMAIN subs : Active(j)} \cup {id} |->
     IF i = id THEN <<e>> ELSE subs[i]]

\* The outcome a callback leaves in the element, read from the fields it has just set.
Outcome ==
  IF automationCreated' THEN Ev("outcome", "Done", automationYaml', 0)
  ELSE IF errorMessage' # null THEN Ev("outcome", "Error", errorMessage', 0)
  ELSE Ev("outcome", "None", "", 0)

(***************************************************************************)
(* Construction                                                            *)
(***************************************************************************)
Init ==
  /\ variant \in Variants
  /\ attached = FALSE
  /\ userInput = <<>>
  /\ isProcessing = FALSE
  /\ automationYaml = ""
  /\ automationCreated = FALSE
  /\ errorMessage = null
  /\ resultMessage = ""
  /\ conversation = <<>>
  /\ currentStep = 0
  /\ answers = [i \in 1..NumSteps |-> <<>>]
  /\ buttonDisabled = TRUE
  /\ nSubmits = 0
  /\ subs = <<>>
  /\ calls = {}
  /\ timers = {}
  /\ unhandled = 0
  /\ strays = 0
  /\ rejected = ""
  /\ resetAt = 0

(***************************************************************************)
(* Host lifecycle                                                          *)
(***************************************************************************)
connectedCallback ==
  CASE variant = "main_guided" ->
         conversation' = IF Len(conversation) = 0 THEN <<FirstPrompt>> ELSE conversation
    [] variant = "p0_guided" -> conversation' = <<FirstPrompt>>
    [] OTHER -> UNCHANGED conversation

Attach ==
  /\ ~attached
  /\ attached' = TRUE
  /\ connectedCallback
  /\ UNCHANGED <<variant, session, currentStep, answers, buttonDisabled, flight, resetAt>> /\ Ran

Detach ==
  /\ attached
  /\ attached' = FALSE
  /\ UNCHANGED <<variant, session, engine, buttonDisabled, flight, resetAt>> /\ Ran

(***************************************************************************)
(* Rendering: which controls the templates offer                           *)
(***************************************************************************)
\* main_single renderForm: <button ${this.isProcessing || !this.userInput ? 'disabled' : ''}>
RenderButton(processing, created, input) ==
  IF created THEN TRUE ELSE processing \/ input = <<>>

FormShown == attached /\ ~automationCreated

InputShown ==
  IF variant \in Guided THEN FormShown /\ ~isProcessing ELSE FormShown

\* As SubmitEnabled, offering Create Automation of the guided panel one step early.
SubmitEnabled_early ==
  /\ FormShown
  /\ CASE variant = "main_single" -> ~buttonDisabled
       [] variant = "p1_single"   -> ~(userInput = <<>> \/ isProcessing)
       [] variant = "p1_prompt"   -> ~(userInput = <<>>)
       [] OTHER                   -> currentStep >= NumSteps - 1 /\ ~isProcessing

SubmitEnabled ==
  /\ FormShown
  /\ CASE variant = "main_single" -> ~buttonDisabled
       [] variant = "p1_single"   -> ~(userInput = <<>> \/ isProcessing)
       [] variant = "p1_prompt"   -> ~(userInput = <<>>)
       [] OTHER                   -> currentStep >= NumSteps /\ ~isProcessing

ResetShown == attached /\ automationCreated

\* The textarea's input listener.
TypeInput ==
  /\ InputShown
  /\ \E v \in Inputs :
       /\ v # userInput
       /\ userInput' = v
       /\ buttonDisabled' =
            IF variant = "main_single" THEN Trim(v) = <<>> ELSE buttonDisabled
  /\ UNCHANGED <<variant, attached, isProcessing, automationYaml, automationCreated,
                 errorMessage, resultMessage, engine, flight, resetAt>> /\ Ran

(***************************************************************************)
(* main_single: main.js 279-372                                            *)
(***************************************************************************)
CreateResults == {NoValue} \cup Yamls   \* what create_automation can answer
FetchResults  == {NoValue} \cup Yamls   \* what get_automation_yaml can answer

\* As ErrorText, without the generic message for an error that carries none.
ErrorText_noGeneric(m) == "Error: " \o m

ErrorText(m) == "Error: " \o (IF m = NoMessage THEN GenericError ELSE m)

\* As handleError, forgetting to clear isProcessing.
handleError_keepsBusy(m) ==
  /\ isProcessing' = isProcessing
  /\ errorMessage' = ErrorText(m)
  /\ buttonDisabled' = RenderButton(isProcessing, automationCreated, userInput)
  /\ UNCHANGED <<userInput, automationYaml, automationCreated, resultMessage>>

\* As handleError, clearing the description as well.
handleError_clearsInput(m) ==
  /\ isProcessing' = FALSE
  /\ errorMessage' = ErrorText(m)
  /\ userInput' = <<>>
  /\ buttonDisabled' = RenderButton(FALSE, automationCreated, <<>>)
  /\ UNCHANGED <<automationYaml, automationCreated, resultMessage>>

\* handleError(error)
handleError(m) ==
  /\ isProcessing' = FALSE
  /\ errorMessage' = ErrorText(m)
  /\ buttonDisabled' = RenderButton(FALSE, automationCreated, userInput)
  /\ UNCHANGED <<userInput, automationYaml, automationCreated, resultMessage>>

\* As Main_generateAutomation, without the isProcessing test.
Main_generateAutomation_noGuard ==
  IF Trim(userInput) = <<>>
  THEN Returned("generateAutomation")
  ELSE /\ nSubmits < MaxSubmits
       /\ isProcessing' = TRUE
       /\ errorMessage' = null
       /\ buttonDisabled' = RenderButton(TRUE, automationCreated, userInput)
       /\ nSubmits' = nSubmits + 1
       /\ calls' = calls \cup {Call(nSubmits + 1, "create", 0, FALSE, userInput)}
       /\ subs' = Opened(nSubmits + 1, Ev("call", "create", "", 0))
       /\ UNCHANGED <<variant, attached, userInput, automationYaml, automationCreated,
                      resultMessage, engine, timers, unhandled, strays, resetAt>> /\ Ran

\* As Main_generateAutomation, leaving the previous error text in place.
Main_generateAutomation_keepsError ==
  IF Trim(userInput) = <<>> \/ isProcessing
  THEN Returned("generateAutomation")
  ELSE /\ nSubmits < MaxSubmits
       /\ isProcessing' = TRUE
       /\ buttonDisabled' = RenderButton(TRUE, automationCreated, userInput)
       /\ nSubmits' = nSubmits + 1
       /\ calls' = calls \cup {Call(nSubmits + 1, "create", 0, FALSE, userInput)}
       /\ subs' = Opened(nSubmits + 1, Ev("call", "create", "", 0))
       /\ UNCHANGED <<variant, attached, userInput, automationYaml, automationCreated,
                      errorMessage, resultMessage, engine, timers, unhandled, strays, resetAt>> /\ Ran

\* generateAutomation(), up to and including the create_automation call.
Main_generateAutomation ==
  IF Trim(userInput) = <<>> \/ isProcessing
  THEN Returned("generateAutomation")
  ELSE /\ nSubmits < MaxSubmits
       /\ isProcessing' = TRUE
       /\ errorMessage' = null
       /\ buttonDisabled' = RenderButton(TRUE, automationCreated, userInput)
       /\ nSubmits' = nSubmits + 1
       /\ calls' = calls \cup {Call(nSubmits + 1, "create", 0, FALSE, userInput)}
       /\ subs' = Opened(nSubmits + 1, Ev("call", "create", "", 0))
       /\ UNCHANGED <<variant, attached, userInput, automationYaml, automationCreated,
                      resultMessage, engine, timers, unhandled, strays, resetAt>> /\ Ran

Main_ClickCreate ==
  /\ variant = "main_single"
  /\ SubmitEnabled
  /\ Main_generateAutomation

\* .then(() => new Promise(resolve => setTimeout(resolve, 2000))): the response is not read.
Main_onCreated(c, r) ==
  /\ calls' = calls \ {c}
  /\ timers' = timers \cup {Timer(c.id, InitialDelay)}
  /\ subs' = Logged(c.id, Ev("resolve", "create", r, 0))
  /\ UNCHANGED <<variant, attached, session, engine, buttonDisabled, nSubmits, unhandled, strays, resetAt>> /\ Ran

Main_CreateResolves ==
  /\ variant = "main_single"
  /\ \E c \in calls : \E r \in CreateResults :
       c.op = "create" /\ Main_onCreated(c, r)

\* A rejection anywhere in the chain reaches .catch(error => this.handleError(error)).
Main_onRejected(c, m) ==
  /\ calls' = calls \ {c}
  /\ handleError(m)
  /\ subs' = Logged2(c.id, Ev("reject", c.op, m, 0), Outcome)
  /\ UNCHANGED <<variant, attached, engine, nSubmits, timers, unhandled, strays, resetAt>> /\ Ran

Main_CallRejects ==
  /\ variant = "main_single"
  /\ \E c \in calls : \E m \in ErrMsgs : Main_onRejected(c, m)

\* .then(() => this._hass.callService(..., "get_automation_yaml", {}))
Main_onInitialDelay(t) ==
  /\ timers' = timers \ {t}
  /\ calls' = calls \cup {Call(t.id, "get_yaml", 1, FALSE, <<>>)}
  /\ subs' = Logged2(t.id, Ev("waited", "", "", t.ms), Ev("call", "get_yaml", "", 0))
  /\ UNCHANGED <<variant, attached, session, engine, buttonDisabled, nSubmits, unhandled, strays, resetAt>> /\ Ran

\* The setTimeout callback of lines 314-352: read the marker, fetch again.
Main_onRetryDelay(t, marker, throws, m) ==
  /\ timers' = timers \ {t}
  /\ IF throws
     THEN /\ UNCHANGED calls
          /\ handleError(m)
          /\ subs' = [subs EXCEPT ![t.id] =
                        @ \o <<Ev("waited", "", "", t.ms), Ev("threw", "", m, 0), Outcome>>]
     ELSE /\ calls' = calls \cup {Call(t.id, "get_yaml", 2, marker, <<>>)}
          /\ subs' = Logged2(t.id, Ev("waited", "", "", t.ms), Ev("call", "get_yaml", "", 0))
          /\ UNCHANGED <<session, buttonDisabled>>
  /\ UNCHANGED <<variant, attached, engine, nSubmits, unhandled, strays, resetAt>> /\ Ran

Main_TimerFires ==
  /\ variant = "main_single"
  /\ \E t \in timers :
       \/ t.ms = InitialDelay /\ Main_onInitialDelay(t)
       \/ /\ t.ms = RetryDelay
          /\ \E marker \in BOOLEAN : \E throws \in BOOLEAN :
               \E m \in (IF throws THEN ErrMsgs ELSE {NoMessage}) :
                 Main_onRetryDelay(t, marker, throws, m)

\* As Main_resultText, looking at the notification marker before the response.
Main_resultText_markerFirst(c, r) ==
  IF r = NoValue /\ c.k < FetchBudget THEN ""
  ELSE IF c.confirmed THEN ConfirmedText
  ELSE IF r # NoValue THEN r
  ELSE ProcessedText

\* The text a fetch response leaves in automationYaml; "" when it asks for another attempt.
Main_resultText(c, r) ==
  IF r # NoValue THEN r
  ELSE IF c.k < FetchBudget THEN ""
  ELSE IF c.confirmed THEN ConfirmedText
  ELSE ProcessedText

\* As Main_onFetched, treating an empty last response as an error.
Main_onFetched_failing(c, r) ==
  /\ calls' = calls \ {c}
  /\ IF r = NoValue /\ c.k < FetchBudget
     THEN /\ timers' = timers \cup {Timer(c.id, RetryDelay)}
          /\ subs' = Logged(c.id, Ev("resolve", "get_yaml", r, 0))
          /\ UNCHANGED <<session, buttonDisabled>>
     ELSE IF r = NoValue
     THEN /\ handleError(NoMessage)
          /\ UNCHANGED timers
          /\ subs' = Logged2(c.id, Ev("resolve", "get_yaml", r, 0), Outcome)
     ELSE /\ automationYaml' = r
          /\ isProcessing' = FALSE
          /\ automationCreated' = TRUE
          /\ buttonDisabled' = RenderButton(FALSE, TRUE, userInput)
          /\ UNCHANGED <<userInput, errorMessage, resultMessage, timers>>
          /\ subs' = Logged2(c.id, Ev("resolve", "get_yaml", r, 0), Outcome)
  /\ UNCHANGED <<variant, attached, engine, nSubmits, unhandled, strays, resetAt>> /\ Ran

\* As Main_onFetched, retrying for as long as the response is empty.
Main_onFetched_unbounded(c, r) ==
  /\ calls' = calls \ {c}
  /\ IF r = NoValue
     THEN /\ timers' = timers \cup {Timer(c.id, RetryDelay)}
          /\ subs' = Logged(c.id, Ev("resolve", "get_yaml", r, 0))
          /\ UNCHANGED <<session, buttonDisabled>>
     ELSE /\ automationYaml' = r
          /\ isProcessing' = FALSE
          /\ automationCreated' = TRUE
          /\ buttonDisabled' = RenderButton(FALSE, TRUE, userInput)
          /\ UNCHANGED <<userInput, errorMessage, resultMessage, timers>>
          /\ subs' = Logged2(c.id, Ev("resolve", "get_yaml", r, 0), Outcome)
  /\ UNCHANGED <<variant, attached, engine, nSubmits, unhandled, strays, resetAt>> /\ Ran

\* As Main_onFetched, issuing the second fetch at once instead of after the delay.
Main_onFetched_eager(c, r) ==
  /\ IF r = NoValue /\ c.k < FetchBudget
     THEN /\ calls' = (calls \ {c}) \cup {Call(c.id, "get_yaml", c.k + 1, FALSE, <<>>)}
          /\ subs' = Logged2(c.id, Ev("resolve", "get_yaml", r, 0),
                             Ev("call", "get_yaml", "", 0))
          /\ UNCHANGED <<session, buttonDisabled, timers>>
     ELSE /\ calls' = calls \ {c}
          /\ automationYaml' = Main_resultText(c, r)
          /\ isProcessing' = FALSE
          /\ automationCreated' = TRUE
          /\ buttonDisabled' = RenderButton(FALSE, TRUE, userInput)
          /\ UNCHANGED <<userInput, errorMessage, resultMessage, timers>>
          /\ subs' = Logged2(c.id, Ev("resolve", "get_yaml", r, 0), Outcome)
  /\ UNCHANGED <<variant, attached, engine, nSubmits, unhandled, strays, resetAt>> /\ Ran

\* As Main_onFetched, treating an empty last response without the notification as an error.
Main_onFetched_needsMarker(c, r) ==
  /\ calls' = calls \ {c}
  /\ IF r = NoValue /\ c.k < FetchBudget
     THEN /\ timers' = timers \cup {Timer(c.id, RetryDelay)}
          /\ subs' = Logged(c.id, Ev("resolve", "get_yaml", r, 0))
          /\ UNCHANGED <<session, buttonDisabled>>
     ELSE IF r = NoValue /\ ~c.confirmed
     THEN /\ handleError(NoMessage)
          /\ UNCHANGED timers
          /\ subs' = Logged2(c.id, Ev("resolve", "get_yaml", r, 0), Outcome)
     ELSE /\ automationYaml' = Main_resultText(c, r)
          /\ isProcessing' = FALSE
          /\ automationCreated' = TRUE
          /\ buttonDisabled' = RenderButton(FALSE, TRUE, userInput)
          /\ UNCHANGED <<userInput, errorMessage, resultMessage, timers>>
          /\ subs' = Logged2(c.id, Ev("resolve", "get_yaml", r, 0), Outcome)
  /\ UNCHANGED <<variant, attached, engine, nSubmits, unhandled, strays, resetAt>> /\ Ran

\* .then((result) => ...) of the first fetch (302-311) and of the second (328-343).
Main_onFetched(c, r) ==
  /\ calls' = calls \ {c}
  /\ IF r = NoValue /\ c.k < FetchBudget
     THEN /\ timers' = timers \cup {Timer(c.id, RetryDelay)}
          /\ subs' = Logged(c.id, Ev("resolve", "get_yaml", r, 0))
          /\ UNCHANGED <<session, buttonDisabled>>
     ELSE /\ automationYaml' = Main_resultText(c, r)
          /\ isProcessing' = FALSE
          /\ automationCreated' = TRUE
          /\ buttonDisabled' = RenderButton(FALSE, TRUE, userInput)
          /\ UNCHANGED <<userInput, errorMessage, resultMessage, timers>>
          /\ subs' = Logged2(c.id, Ev("resolve", "get_yaml", r, 0), Outcome)
  /\ UNCHANGED <<variant, attached, engine, nSubmits, unhandled, strays, resetAt>> /\ Ran

Main_FetchResolves ==
  /\ variant = "main_single"
  /\ \E c \in calls : \E r \in FetchResults :
       c.op = "get_yaml" /\ Main_onFetched(c, r)

\* reset()
Main_reset ==
  /\ userInput' = <<>>
  /\ automationYaml' = ""
  /\ automationCreated' = FALSE
  /\ errorMessage' = null
  /\ buttonDisabled' = RenderButton(isProcessing, FALSE, <<>>)
  /\ UNCHANGED <<variant, attached, isProcessing, resultMessage, engine, flight>> /\ Ran
  /\ resetAt' = nSubmits

Main_ClickReset ==
  /\ variant = "main_single"
  /\ ResetShown
  /\ Main_reset

(***************************************************************************)
(* p1_single: part_001 108-152                                             *)
(***************************************************************************)
DataResults == {NoValue} \cup Yamls   \* hass.data.ai_automation_creator.latest_automation

\* As P1_generateAutomation, testing the input for emptiness without trimming it.
P1_generateAutomation_noTrim ==
  IF userInput = <<>>
  THEN Returned("generateAutomation")
  ELSE /\ nSubmits < MaxSubmits
       /\ isProcessing' = TRUE
       /\ errorMessage' = null
       /\ nSubmits' = nSubmits + 1
       /\ calls' = calls \cup {Call(nSubmits + 1, "create", 0, FALSE, userInput)}
       /\ subs' = Opened(nSubmits + 1, Ev("call", "create", "", 0))
       /\ UNCHANGED <<variant, attached, userInput, automationYaml, automationCreated,
                      resultMessage, engine, buttonDisabled, timers, unhandled, strays, resetAt>> /\ Ran

P1_generateAutomation ==
  IF Trim(userInput) = <<>>
  THEN Returned("generateAutomation")
  ELSE /\ nSubmits < MaxSubmits
       /\ isProcessing' = TRUE
       /\ errorMessage' = null
       /\ nSubmits' = nSubmits + 1
       /\ calls' = calls \cup {Call(nSubmits + 1, "create", 0, FALSE, userInput)}
       /\ subs' = Opened(nSubmits + 1, Ev("call", "create", "", 0))
       /\ UNCHANGED <<variant, attached, userInput, automationYaml, automationCreated,
                      resultMessage, engine, buttonDisabled, timers, unhandled, strays, resetAt>> /\ Ran

P1_ClickCreate ==
  /\ variant = "p1_single"
  /\ SubmitEnabled
  /\ P1_generateAutomation

\* .then(() => this.hass.callService(..., "get_automation_yaml", {}))
P1_onCreated(c, r) ==
  /\ calls' = (calls \ {c}) \cup {Call(c.id, "get_yaml", 1, FALSE, <<>>)}
  /\ subs' = Logged2(c.id, Ev("resolve", "create", r, 0), Ev("call", "get_yaml", "", 0))
  /\ UNCHANGED <<variant, attached, session, engine, buttonDisabled, nSubmits, timers,
                 unhandled, strays, resetAt>> /\ Ran

\* .then(() => { setTimeout(..., 500) }): the response is not read.
P1_onFetched(c, r) ==
  /\ calls' = calls \ {c}
  /\ timers' = timers \cup {Timer(c.id, DataDelay)}
  /\ subs' = Logged(c.id, Ev("resolve", "get_yaml", r, 0))
  /\ UNCHANGED <<variant, attached, session, engine, buttonDisabled, nSubmits, unhandled, strays, resetAt>> /\ Ran

P1_CallResolves ==
  /\ variant = "p1_single"
  /\ \E c \in calls :
       \/ c.op = "create" /\ \E r \in CreateResults : P1_onCreated(c, r)
       \/ c.op = "get_yaml" /\ \E r \in FetchResults : P1_onFetched(c, r)

\* .catch((error) => ...)
P1_onRejected(c, m) ==
  /\ calls' = calls \ {c}
  /\ isProcessing' = FALSE
  /\ errorMessage' = ErrorText(m)
  /\ UNCHANGED <<userInput, automationYaml, automationCreated, resultMessage>>
  /\ subs' = Logged2(c.id, Ev("reject", c.op, m, 0), Outcome)
  /\ UNCHANGED <<variant, attached, engine, buttonDisabled, nSubmits, timers, unhandled, strays, resetAt>> /\ Ran

P1_CallRejects ==
  /\ variant = "p1_single"
  /\ \E c \in calls : \E m \in ErrMsgs : P1_onRejected(c, m)

\* The setTimeout callback of lines 124-137.
P1_onDataDelay(t, latest) ==
  /\ timers' = timers \ {t}
  /\ automationYaml' = IF latest # NoValue THEN latest ELSE P1FallbackText
  /\ isProcessing' = FALSE
  /\ automationCreated' = TRUE
  /\ UNCHANGED <<userInput, errorMessage, resultMessage>>
  /\ subs' = Logged2(t.id, Ev("waited", "", "", t.ms), Outcome)
  /\ UNCHANGED <<variant, attached, engine, buttonDisabled, nSubmits, calls, unhandled, strays, resetAt>> /\ Ran

P1_TimerFires ==
  /\ variant = "p1_single"
  /\ \E t \in timers : \E latest \in DataResults : P1_onDataDelay(t, latest)

P1_reset ==
  /\ userInput' = <<>>
  /\ automationYaml' = ""
  /\ automationCreated' = FALSE
  /\ errorMessage' = null
  /\ UNCHANGED <<variant, attached, isProcessing, resultMessage, engine, buttonDisabled,
                 flight>> /\ Ran
  /\ resetAt' = nSubmits

P1_ClickReset ==
  /\ variant = "p1_single"
  /\ ResetShown
  /\ P1_reset

(***************************************************************************)
(* p1_prompt: part_001 397-444                                             *)
(***************************************************************************)
Prompt_createAutomation ==
  IF Trim(userInput) = <<>>
  THEN Returned("createAutomation")
  ELSE /\ nSubmits < MaxSubmits
       /\ isProcessing' = TRUE
       /\ nSubmits' = nSubmits + 1
       /\ calls' = calls \cup {Call(nSubmits + 1, "create", 0, FALSE, Trim(userInput))}
       /\ subs' = Opened(nSubmits + 1, Ev("call", "create", "", 0))
       /\ UNCHANGED <<variant, attached, userInput, automationYaml, automationCreated,
                      errorMessage, resultMessage, engine, buttonDisabled, timers,
                      unhandled, strays, resetAt>> /\ Ran

Prompt_ClickCreate ==
  /\ variant = "p1_prompt"
  /\ SubmitEnabled
  /\ Prompt_createAutomation

\* (result) => { ... }: both branches of the notification test assign the same text.
Prompt_onCreated(c, r, latest) ==
  /\ calls' = calls \ {c}
  /\ resultMessage' = PromptSuccess
  /\ isProcessing' = FALSE
  /\ automationCreated' = TRUE
  /\ automationYaml' = IF latest # NoValue THEN latest ELSE PromptFallback
  /\ UNCHANGED <<userInput, errorMessage>>
  /\ subs' = Logged2(c.id, Ev("resolve", "create", r, 0), Outcome)
  /\ UNCHANGED <<variant, attached, engine, buttonDisabled, nSubmits, timers, unhandled, strays, resetAt>> /\ Ran

Prompt_CreateResolves ==
  /\ variant = "p1_prompt"
  /\ \E c \in calls : \E r \in CreateResults : \E latest \in DataResults :
       Prompt_onCreated(c, r, latest)

\* (error) => { ... }: the error is shown on the result page.
Prompt_onRejected(c, m) ==
  /\ calls' = calls \ {c}
  /\ resultMessage' =
       "Error creating automation: " \o (IF m = NoMessage THEN "Unknown error" ELSE m)
  /\ isProcessing' = FALSE
  /\ automationCreated' = TRUE
  /\ automationYaml' = PromptFailed
  /\ UNCHANGED <<userInput, errorMessage>>
  /\ subs' = Logged2(c.id, Ev("reject", "create", m, 0), Outcome)
  /\ UNCHANGED <<variant, attached, engine, buttonDisabled, nSubmits, timers, unhandled, strays, resetAt>> /\ Ran

Prompt_CreateRejects ==
  /\ variant = "p1_prompt"
  /\ \E c \in calls : \E m \in ErrMsgs : Prompt_onRejected(c, m)

\* As Prompt_startOver, leaving the result message in place.
Prompt_startOver_keepsResult ==
  /\ userInput' = <<>>
  /\ automationYaml' = ""
  /\ automationCreated' = FALSE
  /\ UNCHANGED <<variant, attached, isProcessing, errorMessage, resultMessage, engine,
                 buttonDisabled, flight>> /\ Ran
  /\ resetAt' = nSubmits

Prompt_startOver ==
  /\ userInput' = <<>>
  /\ automationYaml' = ""
  /\ automationCreated' = FALSE
  /\ resultMessage' = ""
  /\ UNCHANGED <<variant, attached, isProcessing, errorMessage, engine, buttonDisabled,
                 flight>> /\ Ran
  /\ resetAt' = nSubmits

Prompt_ClickStartOver ==
  /\ variant = "p1_prompt"
  /\ ResetShown
  /\ Prompt_startOver

(***************************************************************************)
(* main_guided: main.js 515-610, 788-797; p0_guided: part_000 112-198      *)
(***************************************************************************)
\* fullDescription += `${step.question}\n${step.answer}\n\n` for every step, in order.
RECURSIVE Transcript(_)
Transcript(n) ==
  IF n = 0 THEN <<>>
  ELSE Transcript(n - 1) \o <<Question(n), "\n">> \o answers[n] \o <<"\n", "\n">>

SendEnabled == InputShown /\ userInput # <<>>

\* As handleSend, testing the input for emptiness without trimming it.
handleSend_noTrim ==
  IF userInput = <<>>
  THEN Returned("handleSend")
  ELSE IF currentStep >= NumSteps
  THEN /\ strays < MaxStray
       /\ strays' = strays + 1
       /\ conversation' = Append(conversation, Msg("user", userInput))
       /\ UNCHANGED <<variant, attached, session, currentStep, answers, buttonDisabled,
                      nSubmits, subs, calls, timers, unhandled, resetAt>> /\ Ran
  ELSE /\ answers' = [answers EXCEPT ![currentStep + 1] = userInput]
       /\ userInput' = <<>>
       /\ IF currentStep < NumSteps - 1
          THEN /\ currentStep' = currentStep + 1
               /\ conversation' =
                    conversation \o <<Msg("user", userInput),
                                      Msg("assistant", <<Question(currentStep + 2)>>)>>
          ELSE /\ currentStep' = NumSteps
               /\ conversation' = Append(conversation, Msg("user", userInput))
       /\ UNCHANGED <<variant, attached, isProcessing, automationYaml, automationCreated,
                      errorMessage, resultMessage, buttonDisabled, flight, resetAt>> /\ Ran

\* As handleSend, recording the trimmed input as the answer.
handleSend_trimmed ==
  IF Trim(userInput) = <<>>
  THEN Returned("handleSend")
  ELSE IF currentStep >= NumSteps
  THEN /\ strays < MaxStray
       /\ strays' = strays + 1
       /\ conversation' = Append(conversation, Msg("user", userInput))
       /\ UNCHANGED <<variant, attached, session, currentStep, answers, buttonDisabled,
                      nSubmits, subs, calls, timers, unhandled, resetAt>> /\ Ran
  ELSE /\ answers' = [answers EXCEPT ![currentStep + 1] = Trim(userInput)]
       /\ userInput' = <<>>
       /\ IF currentStep < NumSteps - 1
          THEN /\ currentStep' = currentStep + 1
               /\ conversation' =
                    conversation \o <<Msg("user", userInput),
                                      Msg("assistant", <<Question(currentStep + 2)>>)>>
          ELSE /\ currentStep' = NumSteps
               /\ conversation' = Append(conversation, Msg("user", userInput))
       /\ UNCHANGED <<variant, attached, isProcessing, automationYaml, automationCreated,
                      errorMessage, resultMessage, buttonDisabled, flight, resetAt>> /\ Ran

\* handleSend().  At currentStep = automationSteps.length the assignment to
\* automationSteps[currentStep].answer throws after the user message was appended.
handleSend ==
  IF Trim(userInput) = <<>>
  THEN Returned("handleSend")
  ELSE IF currentStep >= NumSteps
  THEN /\ strays < MaxStray
       /\ strays' = strays + 1
       /\ conversation' = Append(conversation, Msg("user", userInput))
       /\ UNCHANGED <<variant, attached, session, currentStep, answers, buttonDisabled,
                      nSubmits, subs, calls, timers, unhandled, resetAt>> /\ Ran
  ELSE /\ answers' = [answers EXCEPT ![currentStep + 1] = userInput]
       /\ userInput' = <<>>
       /\ IF currentStep < NumSteps - 1
          THEN /\ currentStep' = currentStep + 1
               /\ conversation' =
                    conversation \o <<Msg("user", userInput),
                                      Msg("assistant", <<Question(currentStep + 2)>>)>>
          ELSE /\ currentStep' = NumSteps
               /\ conversation' = Append(conversation, Msg("user", userInput))
       /\ UNCHANGED <<variant, attached, isProcessing, automationYaml, automationCreated,
                      errorMessage, resultMessage, buttonDisabled, flight, resetAt>> /\ Ran

Guided_ClickSend ==
  /\ variant \in Guided
  /\ SendEnabled
  /\ handleSend

\* createAutomation(), up to and including the create_automation call.
Guided_createAutomation ==
  /\ nSubmits < MaxSubmits
  /\ isProcessing' = TRUE
  /\ nSubmits' = nSubmits + 1
  /\ calls' = calls \cup {Call(nSubmits + 1, "create", 0, FALSE, Transcript(NumSteps))}
  /\ subs' = Opened(nSubmits + 1, Ev("call", "create", "", 0))
  /\ UNCHANGED <<variant, attached, userInput, automationYaml, automationCreated,
                 errorMessage, resultMessage, engine, buttonDisabled, timers, unhandled, strays, resetAt>> /\ Ran

Guided_ClickCreate ==
  /\ variant \in Guided
  /\ SubmitEnabled
  /\ Guided_createAutomation

\* (result) => { ... }: the success message, then callApi("GET", "config/automation/config/0").
Guided_onCreated(c, r) ==
  /\ conversation' = Append(conversation, Msg("assistant", <<CreatedMessage>>))
  /\ automationCreated' = TRUE
  /\ isProcessing' = FALSE
  /\ calls' = (calls \ {c}) \cup {Call(c.id, "api", 1, FALSE, <<>>)}
  /\ UNCHANGED <<userInput, automationYaml, errorMessage, resultMessage>>
  /\ subs' = [subs EXCEPT ![c.id] =
                @ \o <<Ev("resolve", "create", r, 0), Outcome, Ev("call", "api", "", 0)>>]
  /\ UNCHANGED <<variant, attached, currentStep, answers, buttonDisabled, nSubmits,
                 timers, unhandled, strays, resetAt>> /\ Ran

Guided_CreateResolves ==
  /\ variant \in Guided
  /\ \E c \in calls : \E r \in CreateResults :
       c.op = "create" /\ Guided_onCreated(c, r)

\* As Guided_onRejected, stepping back to the last question.
Guided_onRejected_rewinds(c, m) ==
  /\ conversation' =
       Append(conversation, Msg("assistant", <<SorryPrefix \o MessageText(m)>>))
  /\ isProcessing' = FALSE
  /\ currentStep' = NumSteps - 1
  /\ calls' = calls \ {c}
  /\ subs' = Logged2(c.id, Ev("reject", "create", m, 0),
                     Ev("outcome", "Error", SorryPrefix \o MessageText(m), 0))
  /\ UNCHANGED <<variant, attached, userInput, automationYaml, automationCreated,
                 errorMessage, resultMessage, answers, buttonDisabled,
                 nSubmits, timers, unhandled, strays, resetAt>> /\ Ran

\* (error) => { ... }: the error is appended to the conversation.
Guided_onRejected(c, m) ==
  /\ conversation' =
       Append(conversation, Msg("assistant", <<SorryPrefix \o MessageText(m)>>))
  /\ isProcessing' = FALSE
  /\ calls' = calls \ {c}
  /\ subs' = Logged2(c.id, Ev("reject", "create", m, 0),
                     Ev("outcome", "Error", SorryPrefix \o MessageText(m), 0))
  /\ UNCHANGED <<variant, attached, userInput, automationYaml, automationCreated,
                 errorMessage, resultMessage, currentStep, answers, buttonDisabled,
                 nSubmits, timers, unhandled, strays, resetAt>> /\ Ran

Guided_CreateRejects ==
  /\ variant \in Guided
  /\ \E c \in calls : \E m \in ErrMsgs :
       c.op = "create" /\ Guided_onRejected(c, m)

\* (automation) => { this.automationYaml = JSON.stringify(automation, null, 2); }
Guided_onApi(c, a) ==
  /\ calls' = calls \ {c}
  /\ automationYaml' = Stringify(a)
  /\ subs' = Logged(c.id, Ev("resolve", "api", Stringify(a), 0))
  /\ UNCHANGED <<variant, attached, userInput, isProcessing, automationCreated,
                 errorMessage, resultMessage, engine, buttonDisabled, nSubmits, timers,
                 unhandled, strays, resetAt>> /\ Ran

Guided_ApiResolves ==
  /\ variant \in Guided
  /\ \E c \in calls : \E a \in Automations :
       c.op = "api" /\ Guided_onApi(c, a)

\* main.js: .catch(error => { this.automationYaml = "... couldn't retrieve the YAML." })
MainGuided_onApiRejected(c) ==
  /\ calls' = calls \ {c}
  /\ automationYaml' = NoYamlText
  /\ subs' = Logged(c.id, Ev("reject", "api", "", 0))
  /\ UNCHANGED <<variant, attached, userInput, isProcessing, automationCreated,
                 errorMessage, resultMessage, engine, buttonDisabled, nSubmits, timers,
                 unhandled, strays, resetAt>> /\ Ran

MainGuided_ApiRejects ==
  /\ variant = "main_guided"
  /\ \E c \in calls : c.op = "api" /\ MainGuided_onApiRejected(c)

\* part_000: callApi(...).then(...) has no rejection handler.
P0_onApiRejected(c) ==
  /\ calls' = calls \ {c}
  /\ unhandled' = unhandled + 1
  /\ subs' = Logged2(c.id, Ev("reject", "api", "", 0), Ev("unhandled", "api", "", 0))
  /\ UNCHANGED <<variant, attached, session, engine, buttonDisabled, nSubmits, timers,
                 strays, resetAt>> /\ Ran

P0_ApiRejects ==
  /\ variant = "p0_guided"
  /\ \E c \in calls : c.op = "api" /\ P0_onApiRejected(c)

\* As Guided_startOver, keeping the answers given so far.
Guided_startOver_keepsAnswers ==
  /\ conversation' = <<FirstPrompt>>
  /\ userInput' = <<>>
  /\ automationYaml' = ""
  /\ automationCreated' = FALSE
  /\ currentStep' = 0
  /\ UNCHANGED <<variant, attached, isProcessing, errorMessage, resultMessage, answers,
                 buttonDisabled, flight>> /\ Ran
  /\ resetAt' = nSubmits

\* As Guided_startOver, keeping the step counter.
Guided_startOver_keepsStep ==
  /\ conversation' = <<FirstPrompt>>
  /\ userInput' = <<>>
  /\ automationYaml' = ""
  /\ automationCreated' = FALSE
  /\ answers' = [i \in 1..NumSteps |-> <<>>]
  /\ UNCHANGED <<variant, attached, isProcessing, errorMessage, resultMessage, currentStep,
                 buttonDisabled, flight>> /\ Ran
  /\ resetAt' = nSubmits

\* startOver()
Guided_startOver ==
  /\ conversation' = <<FirstPrompt>>
  /\ userInput' = <<>>
  /\ automationYaml' = ""
  /\ automationCreated' = FALSE
  /\ currentStep' = 0
  /\ answers' = [i \in 1..NumSteps |-> <<>>]
  /\ UNCHANGED <<variant, attached, isProcessing, errorMessage, resultMessage,
                 buttonDisabled, flight>> /\ Ran
  /\ resetAt' = nSubmits

Guided_ClickStartOver ==
  /\ variant \in Guided
  /\ ResetShown
  /\ Guided_startOver

(***************************************************************************)
(* Specifications                                                          *)
(***************************************************************************)
UserActs ==
  \/ TypeInput
  \/ Main_ClickCreate
  \/ Main_ClickReset
  \/ P1_ClickCreate
  \/ P1_ClickReset
  \/ Prompt_ClickCreate
  \/ Prompt_ClickStartOver
  \/ Guided_ClickSend
  \/ Guided_ClickCreate
  \/ Guided_ClickStartOver

BackendResponds ==
  \/ Main_CreateResolves
  \/ Main_FetchResolves
  \/ Main_CallRejects
  \/ P1_CallResolves
  \/ P1_CallRejects
  \/ Prompt_CreateResolves
  \/ Prompt_CreateRejects
  \/ Guided_CreateResolves
  \/ Guided_CreateRejects
  \/ Guided_ApiResolves
  \/ MainGuided_ApiRejects
  \/ P0_ApiRejects

TimerFires ==
  \/ Main_TimerFires
  \/ P1_TimerFires

Next ==
  \/ Attach
  \/ Detach
  \/ UserActs
  \/ BackendResponds
  \/ TimerFires

Spec == Init /\ [][Next]_vars

\* Every backend call settles and every timer fires.
FairSpec == Spec /\ WF_vars(BackendResponds) /\ WF_vars(TimerFires)

\* createAutomation() invoked as a method of the element, not through the button
\* that the template renders only at currentStep >= automationSteps.length.
Guided_CallCreate ==
  /\ variant \in Guided
  /\ attached
  /\ Guided_createAutomation

DirectNext ==
  \/ Next
  \/ Guided_CallCreate

\* The panel together with a caller of the element's createAutomation method.
DirectSpec == Init /\ [][DirectNext]_vars

\* Every timer fires, while the backend may leave a call unanswered for ever.
SilentBackendSpec == Spec /\ WF_vars(TimerFires)

\* reset() / startOver() of the element's class.
Reset ==
  CASE variant = "main_single" -> Main_reset
    [] variant = "p1_single"   -> P1_reset
    [] variant = "p1_prompt"   -> Prompt_startOver
    [] OTHER                   -> Guided_startOver

\* reset() / startOver() invoked as a method of the element, not through the
\* button that the result page renders.
CallReset ==
  /\ attached
  /\ Reset

ResetCallNext ==
  \/ Next
  \/ CallReset

\* The panel together with a caller of the element's reset / startOver method.
ResetCallSpec == Init /\ [][ResetCallNext]_vars

(***************************************************************************)
(* Reading the logs                                                        *)
(***************************************************************************)
Subs == DOMAIN subs

\* Positions in submission id's log of the events of one kind.
At(id, ev, op) ==
  {i \in 1..Len(subs[id]) : subs[id][i].ev = ev /\ subs[id][i].op = op}

AtOutcome(id) == {i \in 1..Len(subs[id]) : subs[id][i].ev = "outcome"}

AtFetchCall(id) == At(id, "call", "get_yaml") \cup At(id, "call", "api")

AtFetchReply(id) ==
  At(id, "resolve", "get_yaml") \cup At(id, "resolve", "api")
    \cup At(id, "reject", "get_yaml") \cup At(id, "reject", "api")

AtWait(id, ms) ==
  {i \in 1..Len(subs[id]) : subs[id][i].ev = "waited" /\ subs[id][i].ms = ms}

HasOutcome(id) == id \in Subs /\ AtOutcome(id) # {}

\* The element shows an error: the error text of the variant is set.
InError ==
  CASE variant \in Guided ->
         /\ conversation # <<>>
         /\ conversation[Len(conversation)] \in
              {Msg("assistant", <<SorryPrefix \o MessageText(m)>>) : m \in ErrMsgs}
    [] variant = "p1_prompt" ->
         resultMessage \in
           {"Error creating automation: " \o (IF m = NoMessage THEN "Unknown error" ELSE m) :
              m \in ErrMsgs}
    [] OTHER -> errorMessage # null

\* get_automation_yaml / callApi attempts one submission may make.
Budget ==
  CASE variant = "main_single" -> FetchBudget
    [] variant = "p1_prompt"   -> 0
    [] OTHER                   -> 1

(***************************************************************************)
(* C1.  In every variant at most one create_automation call is outstanding *)
(* at any time: a submit made while one is outstanding issues no second    *)
(* call.  part_001's createAutomation has no isProcessing guard and its    *)
(* button stays enabled while processing, so this fails.                   *)
(***************************************************************************)
C1_OneCreateOutstanding ==
  Cardinality({c \in calls : c.op = "create"}) <= 1

Polling == {"main_single", "p1_single"}   \* the variants with generateAutomation

C3_ErrorTextIsMessage ==
  variant \in Polling =>
    \A id \in Subs : \A i \in At(id, "reject", "create") :
      /\ i < Len(subs[id])
      /\ subs[id][i + 1] =
           Ev("outcome", "Error",
              IF subs[id][i].val = NoMessage THEN GenericError ELSE subs[id][i].val, 0)
      /\ AtFetchCall(id) = {}

(***************************************************************************)
(* C3 as amended: when create_automation rejects with message m, the       *)
(* submission ends in Error with error text "Error: " followed by m (by    *)
(* "Failed to create automation" when m is missing), and it issues no      *)
(* fetch.                                                                  *)
(***************************************************************************)
C3_CreateRejectionFails ==
  variant \in Polling =>
    \A id \in Subs : \A i \in At(id, "reject", "create") :
      /\ i < Len(subs[id])
      /\ subs[id][i + 1] =
           Ev("outcome", "Error",
              "Error: " \o (IF subs[id][i].val = NoMessage
                              THEN "Failed to create automation"
                              ELSE subs[id][i].val), 0)
      /\ AtFetchCall(id) = {}

C3_Witness ==
  /\ variant \in Polling
  /\ errorMessage = "Error: Failed to create automation"
  /\ ~isProcessing
  /\ \E id \in Subs : \E i \in At(id, "reject", "create") : subs[id][i].val = NoMessage

(***************************************************************************)
(* C4.  When create_automation resolves with a response that carries the  *)
(* result text, the submission ends in Done with that text and no fetch    *)
(* is issued for it.  The code never reads the response and always         *)
(* fetches, so this fails.                                                 *)
(***************************************************************************)
C4_ImmediateResultSkipsFetch ==
  variant \in Polling =>
    \A id \in Subs : \A i \in At(id, "resolve", "create") :
      subs[id][i].val # NoValue =>
        /\ AtFetchCall(id) = {}
        /\ \A j \in AtOutcome(id) :
             subs[id][j] = Ev("outcome", "Done", subs[id][i].val, 0)

(***************************************************************************)
(* C5.  main_single: when create_automation resolves without a result      *)
(* text, the first get_automation_yaml attempt returns no value and the    *)
(* last (second) attempt returns a value, the submission ends in Done      *)
(* with exactly that value, and the retry delay (1000 ms) was waited       *)
(* FetchBudget - 1 times.  (The 2000 ms wait before the first attempt is   *)
(* a separate, single wait.)                                               *)
(***************************************************************************)
LastOf(S) == CHOOSE i \in S : \A j \in S : j <= i

C5_FinalAttemptValue ==
  variant = "main_single" =>
    \A id \in Subs :
      LET replies == At(id, "resolve", "get_yaml") IN
        ( /\ Cardinality(replies) = FetchBudget
          /\ \A i \in At(id, "resolve", "create") : subs[id][i].val = NoValue
          /\ \A i \in replies \ {LastOf(replies)} : subs[id][i].val = NoValue
          /\ subs[id][LastOf(replies)].val # NoValue )
        => /\ LastOf(replies) < Len(subs[id])
           /\ subs[id][LastOf(replies) + 1] =
                Ev("outcome", "Done", subs[id][LastOf(replies)].val, 0)
           /\ Cardinality(AtWait(id, RetryDelay)) = FetchBudget - 1
           /\ Cardinality(AtWait(id, InitialDelay)) = 1

C5_Witness ==
  /\ variant = "main_single"
  /\ automationCreated /\ ~isProcessing
  /\ automationYaml \in Yamls
  /\ \E id \in Subs :
       /\ Cardinality(At(id, "resolve", "get_yaml")) = FetchBudget
       /\ subs[id][Len(subs[id])] = Ev("outcome", "Done", automationYaml, 0)
       /\ Cardinality(AtWait(id, RetryDelay)) = 1

(***************************************************************************)
(* C6.  In the polling variants, when create_automation resolves without   *)
(* a result text and every fetch attempt of the budget returns no value,   *)
(* the submission ends in Done with a non-empty text, never in Error.      *)
(***************************************************************************)
C6_ExhaustedBudgetIsSuccess ==
  variant \in Polling =>
    \A id \in Subs :
      ( /\ Cardinality(At(id, "resolve", "get_yaml")) = Budget
        /\ \A i \in At(id, "resolve", "create") : subs[id][i].val = NoValue
        /\ \A i \in At(id, "resolve", "get_yaml") : subs[id][i].val = NoValue )
      => /\ HasOutcome(id) \/ \E t \in timers : t.id = id
         /\ \A j \in AtOutcome(id) :
              subs[id][j].op = "Done" /\ subs[id][j].val # ""

C6_Witness ==
  /\ variant = "main_single"
  /\ automationCreated /\ ~isProcessing /\ errorMessage = null
  /\ automationYaml = ProcessedText
  /\ \E id \in Subs :
       /\ Cardinality(At(id, "resolve", "get_yaml")) = FetchBudget
       /\ \A i \in At(id, "resolve", "get_yaml") : subs[id][i].val = NoValue

(***************************************************************************)
(* C7.  After a successful creation, a rejected fetch attempt is recovered *)
(* by the retry loop, and an exhausted budget ends in Done, not in Error.  *)
(* The code sends every fetch rejection to handleError, so this fails.     *)
(***************************************************************************)
C7_FetchRejectionRecovered ==
  variant \in Polling =>
    \A id \in Subs : \A i \in At(id, "reject", "get_yaml") :
      \A j \in AtOutcome(id) : subs[id][j].op = "Done"

(***************************************************************************)
(* C8.  Every rejection or exception of the retrieval phase is caught and  *)
(* turned into the Error outcome with an error text; none is left          *)
(* unhandled and none leaves isProcessing set.  part_000 attaches no       *)
(* rejection handler to callApi and main.js turns the rejection into a     *)
(* fallback result text, so this fails.                                    *)
(***************************************************************************)
AtPollingFailure(id) ==
  At(id, "reject", "get_yaml") \cup At(id, "reject", "api") \cup At(id, "threw", "")

C8_PollingFailureCaught ==
  /\ unhandled = 0
  /\ \A id \in Subs : \A i \in AtPollingFailure(id) :
       /\ i < Len(subs[id])
       /\ subs[id][i + 1].ev = "outcome"
       /\ subs[id][i + 1].op = "Error"
       /\ subs[id][i + 1].val # ""

(***************************************************************************)
(* C9.  Every accepted submission issues create_automation exactly once    *)
(* and issues between zero and Budget fetches (2 in main_single).          *)
(***************************************************************************)
C9_CallCounts ==
  \A id \in Subs :
    /\ Cardinality(At(id, "call", "create")) = 1
    /\ Cardinality(AtFetchCall(id)) <= Budget

C9_Witness ==
  /\ variant = "main_single"
  /\ \E id \in Subs :
       /\ Cardinality(AtFetchCall(id)) = FetchBudget
       /\ HasOutcome(id)
       /\ ~Active(id)

(***************************************************************************)
(* C10.  Within a submission no fetch is issued before create_automation   *)
(* has resolved, a further fetch is issued only after the previous one     *)
(* was answered and the retry delay has then elapsed, and at most one      *)
(* backend call of the submission is outstanding, none while a delay runs. *)
(***************************************************************************)
C10_Sequential ==
  \A id \in Subs :
    /\ Cardinality({c \in calls : c.id = id}) <= 1
    /\ (\E c \in calls : c.id = id) => ~(\E t \in timers : t.id = id)
    /\ \A i \in AtFetchCall(id) : \E j \in At(id, "resolve", "create") : j < i
    /\ \A i \in AtFetchCall(id) : \A k \in AtFetchCall(id) :
         i < k => \E j \in AtFetchReply(id) : \E w \in AtWait(id, RetryDelay) :
                    i < j /\ j < w /\ w < k

C10_Witness ==
  /\ variant = "main_single"
  /\ \E c \in calls : c.op = "get_yaml" /\ c.k = FetchBudget
  /\ timers = {}

(***************************************************************************)
(* C11.  In the guided variants a handleSend whose input is empty or only  *)
(* blanks after trimming returns at once: currentStep, every answer and    *)
(* the message log (and every other field) are unchanged, so repeating it  *)
(* leaves the state identical.                                             *)
(***************************************************************************)
C11_BlankSendIgnored ==
  [][ (variant \in Guided /\ SendEnabled /\ Trim(userInput) = <<>> /\ handleSend)
        => /\ rejected' = "handleSend"
           /\ UNCHANGED <<currentStep, answers, conversation>>
           /\ UNCHANGED element ]_vars

C11_Witness ==
  /\ variant \in Guided
  /\ rejected = "handleSend"
  /\ userInput = <<" ">>
  /\ currentStep = 1
  /\ Len(conversation) = 3

(***************************************************************************)
(* C12.  After startOver (the only step that leaves the result page of a   *)
(* guided variant) currentStep is 0, every answer is empty and the message *)
(* log is exactly the assistant message with the first question.           *)
(***************************************************************************)
C12_StartOverResets ==
  [][ (variant \in Guided /\ automationCreated /\ ~automationCreated')
        => /\ currentStep' = 0
           /\ \A i \in 1..NumSteps : answers'[i] = <<>>
           /\ conversation' = <<Msg("assistant", <<Question(1)>>)>> ]_vars

C12_Witness ==
  /\ variant \in Guided
  /\ ~automationCreated
  /\ currentStep = 0
  /\ conversation = <<Msg("assistant", <<Question(1)>>)>>
  /\ \A i \in 1..NumSteps : answers[i] = <<>>
  /\ \E id \in Subs : \E j \in AtOutcome(id) : subs[id][j].op = "Done"

(***************************************************************************)
(* C13.  A handleSend with a text that is not blank at step i < N records  *)
(* the text as typed as the answer of step i and appends the user message  *)
(* with it; for i < N-1 it appends exactly one assistant message, the      *)
(* question of step i+1, and moves to step i+1; for i = N-1 it moves to    *)
(* Complete (currentStep = N) and appends nothing more.                    *)
(***************************************************************************)
C13_SendRecordsAnswer ==
  [][ (variant \in Guided /\ SendEnabled /\ Trim(userInput) # <<>>
         /\ currentStep < NumSteps /\ handleSend)
        => /\ answers' = [answers EXCEPT ![currentStep + 1] = userInput]
           /\ currentStep' = currentStep + 1
           /\ conversation' =
                IF currentStep < NumSteps - 1
                THEN conversation \o <<Msg("user", userInput),
                                       Msg("assistant", <<Question(currentStep + 2)>>)>>
                ELSE conversation \o <<Msg("user", userInput)>> ]_vars

C13_Witness ==
  /\ variant = "main_guided"
  /\ currentStep = NumSteps
  /\ Len(conversation) = 2 * NumSteps
  /\ conversation[Len(conversation)] = Msg("user", <<" ", "a">>)
  /\ \A i \in 1..NumSteps : answers[i] = <<" ", "a">>

(***************************************************************************)
(* C14.  currentStep always lies in 0..N and changes only in two ways: a   *)
(* handleSend with a text that is not blank moves step i < N to i+1, and   *)
(* startOver moves to 0.  No other step (a rejected handleSend, a Send at  *)
(* Complete, createAutomation, a backend response, attaching again)        *)
(* changes it.                                                             *)
(***************************************************************************)
C14_StepTransitions ==
  /\ [](currentStep \in 0..NumSteps)
  /\ [][ currentStep' # currentStep =>
           \/ /\ variant \in Guided /\ SendEnabled /\ Trim(userInput) # <<>>
              /\ currentStep < NumSteps
              /\ currentStep' = currentStep + 1
           \/ /\ variant \in Guided /\ ResetShown /\ ~automationCreated'
              /\ currentStep' = 0 ]_vars

C14_Witness ==
  /\ variant \in Guided
  /\ currentStep = NumSteps
  /\ strays = 1
  /\ isProcessing
  /\ ~attached

(***************************************************************************)
(* C15.  Every description that createAutomation sends to                   *)
(* create_automation is the transcript of N non-empty answers: each        *)
(* question followed by its answer, in step order, each pair closed by a   *)
(* blank line; a request made before all N steps are answered is rejected  *)
(* and sends nothing.  createAutomation has no such test: called before    *)
(* the last answer it sends the questions with empty answers.              *)
(***************************************************************************)
Answered == {v \in Inputs : Trim(v) # <<>>}   \* inputs handleSend accepts

RECURSIVE PromptsAndAnswers(_, _)
PromptsAndAnswers(a, n) ==
  IF n = 0 THEN <<>>
  ELSE PromptsAndAnswers(a, n - 1) \o <<Question(n), "\n">> \o a[n] \o <<"\n", "\n">>

\* Every description on its way to create_automation is a complete transcript.
DescriptionsComplete ==
  \A c \in calls : c.op = "create" =>
    \E a \in [1..NumSteps -> Answered] : c.desc = PromptsAndAnswers(a, NumSteps)

C15_TranscriptOnlyWhenComplete == variant \in Guided => DescriptionsComplete

(***************************************************************************)
(* C16.  Once the session is in Done or Error (not processing, the result  *)
(* page or an error text shown) no new submission starts before a reset,   *)
(* and the reset leaves the session collecting again: input, result and    *)
(* error cleared and, in the guided variants, the conversation back at     *)
(* the first question.  In Error the form and its button are still         *)
(* offered, so a new submission starts without any reset.                  *)
(***************************************************************************)
Terminal == ~isProcessing /\ (automationCreated \/ InError)

Collecting ==
  /\ ~automationCreated
  /\ ~InError
  /\ userInput = <<>>
  /\ automationYaml = ""
  /\ variant \in Guided =>
       /\ currentStep = 0
       /\ conversation = <<Msg("assistant", <<Question(1)>>)>>
       /\ \A i \in 1..NumSteps : answers[i] = <<>>

C16_OnlyResetFromTerminal ==
  [][ Terminal =>
        /\ nSubmits' = nSubmits
        /\ (automationCreated /\ ~automationCreated') => Collecting' ]_vars

(***************************************************************************)
(* C17.  In every variant a rejected create_automation call ends the       *)
(* submission in Error: an error text is shown and automationCreated       *)
(* stays false.  part_001's createAutomation sets automationCreated on     *)
(* rejection and shows the result page, so this fails.                     *)
(***************************************************************************)
C17_CreateRejectionIsError ==
  \A id \in Subs : \A i \in At(id, "reject", "create") :
    /\ i < Len(subs[id])
    /\ subs[id][i + 1].ev = "outcome"
    /\ subs[id][i + 1].op = "Error"
    /\ subs[id][i + 1].val # ""
    /\ (i + 1 = Len(subs[id]) /\ Cardinality(Subs) = 1) => ~automationCreated

(***************************************************************************)
(* C18.  A submission does not wait for the backend without bound: even    *)
(* when a create_automation or fetch call never settles, a timeout ends    *)
(* the submission and the session leaves Submitting.  The code arms no     *)
(* timer beside its calls, so with a silent backend isProcessing stays     *)
(* set for ever.                                                           *)
(***************************************************************************)
C18_BoundedWait == isProcessing ~> ~isProcessing

(***************************************************************************)
(* C19.  Through the controls of the guided panel a submission starts      *)
(* only at currentStep >= N with isProcessing false, so every description  *)
(* sent to create_automation is the transcript of N non-empty answers.     *)
(***************************************************************************)
C19_CreateOnlyWhenComplete ==
  /\ [](variant \in Guided => DescriptionsComplete)
  /\ [][ (variant \in Guided /\ nSubmits' # nSubmits)
           => currentStep >= NumSteps /\ ~isProcessing ]_vars

C19_Witness ==
  /\ variant \in Guided
  /\ isProcessing
  /\ currentStep = NumSteps
  /\ \E c \in calls :
       /\ c.op = "create"
       /\ c.desc = PromptsAndAnswers([i \in 1..NumSteps |-> <<" ", "a">>], NumSteps)

(***************************************************************************)
(* C20.  In the single-shot variants the submit handler invoked with an    *)
(* input that is empty or only blanks after trimming issues no backend     *)
(* call and changes no session field (isProcessing, error text, result     *)
(* text, automationCreated).                                               *)
(***************************************************************************)
Submit ==
  CASE variant = "main_single" -> Main_generateAutomation
    [] variant = "p1_single"   -> P1_generateAutomation
    [] variant = "p1_prompt"   -> Prompt_createAutomation
    [] OTHER                   -> FALSE

C20_BlankSubmitIgnored ==
  [][ (SubmitEnabled /\ Trim(userInput) = <<>> /\ Submit)
        => /\ rejected' \in {"generateAutomation", "createAutomation"}
           /\ calls' = calls /\ timers' = timers /\ nSubmits' = nSubmits
           /\ UNCHANGED <<isProcessing, errorMessage, resultMessage, automationYaml,
                          automationCreated, userInput>> ]_vars

C20_Witness ==
  /\ variant = "main_single"
  /\ rejected = "generateAutomation"
  /\ userInput = <<" ">>
  /\ ~isProcessing
  /\ errorMessage # null

(***************************************************************************)
(* C21.  In the polling variants, when create_automation has succeeded and *)
(* the first get_automation_yaml attempt returns no value, the outcome is  *)
(* set only after a delay was waited and at least one further fetch was    *)
(* issued.  part_001's generateAutomation never reads the fetch response   *)
(* and issues no second fetch, so this fails.                              *)
(***************************************************************************)
FirstOf(S) == CHOOSE i \in S : \A j \in S : i <= j

C21_RetryAfterEmptyFetch ==
  variant \in Polling =>
    \A id \in Subs : \A j \in AtOutcome(id) :
      ( /\ AtFetchReply(id) # {}
        /\ FirstOf(AtFetchReply(id)) < j
        /\ subs[id][FirstOf(AtFetchReply(id))] = Ev("resolve", "get_yaml", NoValue, 0) )
      => \E w \in 1..Len(subs[id]) : \E k \in AtFetchCall(id) :
           /\ subs[id][w].ev = "waited"
           /\ FirstOf(AtFetchReply(id)) < w /\ w < k /\ k < j

(***************************************************************************)
(* C22.  main_single: when the last get_automation_yaml attempt returns no *)
(* value the submission ends in Done, with or without the host state key   *)
(* persistent_notification.ai_automation_creator_success; the key only     *)
(* chooses between the two fallback texts and no error text is set.        *)
(***************************************************************************)
C22_MarkerOnlySelectsText ==
  [][ variant = "main_single" =>
        \A c \in calls \ calls' :
          ( /\ c.op = "get_yaml" /\ c.k = FetchBudget
            /\ \E n \in 1..Len(subs'[c.id]) :
                 subs'[c.id][n] = Ev("resolve", "get_yaml", NoValue, 0)
                   /\ n > Len(subs[c.id]) )
          => /\ automationCreated' /\ ~isProcessing'
             /\ errorMessage' = null
             /\ automationYaml' =
                  IF c.confirmed
                  THEN "Automation was created successfully and added to your automations.yaml file."
                  ELSE "Automation has been processed. Please check your automations.yaml file." ]_vars

C22_Witness ==
  /\ variant = "main_single"
  /\ automationCreated /\ ~isProcessing /\ errorMessage = null
  /\ automationYaml = ConfirmedText
  /\ \E id \in Subs :
       /\ Cardinality(At(id, "resolve", "get_yaml")) = FetchBudget
       /\ subs[id][Len(subs[id])] = Ev("outcome", "Done", ConfirmedText, 0)

(***************************************************************************)
(* C23.  In the guided variants the message log is append-only between two *)
(* resets: every step other than startOver (handleSend, createAutomation   *)
(* and its callbacks, the host attaching the element again) leaves the old *)
(* log as a prefix of the new one.  part_000's connectedCallback assigns   *)
(* the one-message log on every attach, so this fails.                     *)
(***************************************************************************)
IsPrefix(a, b) == Len(a) <= Len(b) /\ SubSeq(b, 1, Len(a)) = a

C23_LogAppendOnly ==
  [][ (variant \in Guided /\ ~(automationCreated /\ ~automationCreated'))
        => IsPrefix(conversation, conversation') ]_vars

(***************************************************************************)
(* C24.  main_single: generateAutomation invoked while isProcessing is     *)
(* true returns at once.  userInput, isProcessing, errorMessage,           *)
(* automationYaml and automationCreated are unchanged, and so are the      *)
(* calls, timers and log of the submission in flight, which therefore      *)
(* goes on to the outcome it would have reached anyway.                    *)
(***************************************************************************)
C24_BusySubmitIgnored ==
  [][ (variant = "main_single" /\ SubmitEnabled /\ isProcessing /\ Main_generateAutomation)
        => /\ rejected' = "generateAutomation"
           /\ UNCHANGED <<userInput, isProcessing, errorMessage, automationYaml,
                          automationCreated>>
           /\ UNCHANGED <<calls, timers, subs, nSubmits>> ]_vars

C24_Witness ==
  /\ variant = "main_single"
  /\ rejected = "generateAutomation"
  /\ isProcessing
  /\ Trim(userInput) # <<>>
  /\ \E c \in calls : c.op = "get_yaml"

(***************************************************************************)
(* C25.  Every submission sets its outcome exactly once: after it has left *)
(* Submitting for Done or Error, no later callback of the same submission  *)
(* changes isProcessing, automationCreated, the result text, the error     *)
(* text or the message log.  In the guided variants the callApi callback   *)
(* assigns automationYaml after Done was entered, so this fails.           *)
(***************************************************************************)
C25_OutcomeSetOnce ==
  /\ [](\A id \in Subs : Cardinality(AtOutcome(id)) <= 1)
  /\ [][ \A id \in Subs :
           (HasOutcome(id) /\ id \in DOMAIN subs' /\ subs'[id] # subs[id])
             => UNCHANGED <<isProcessing, automationCreated, automationYaml,
                            errorMessage, resultMessage, conversation>> ]_vars

(***************************************************************************)
(* C26.  After reset / startOver, and until a new submission is started,   *)
(* no callback of a submission started before that reset changes the new  *)
(* session: automationYaml stays empty, automationCreated stays false and  *)
(* the message log is unchanged.  The callApi callback of the guided       *)
(* variants (and the second response of part_001's createAutomation) runs  *)
(* after the reset and writes into the new session, so this fails.         *)
(***************************************************************************)
C26_NoLateCallbackAfterReset ==
  [][ \A id \in Subs :
        ( /\ id <= resetAt /\ nSubmits = resetAt /\ nSubmits' = nSubmits
          /\ ~automationCreated
          /\ id \in DOMAIN subs' /\ subs'[id] # subs[id] )
        => /\ automationYaml' = "" /\ automationYaml = ""
           /\ ~automationCreated'
           /\ conversation' = conversation ]_vars

(***************************************************************************)
(* C27.  In the guided variants, whenever the question form is displayed   *)
(* (automationCreated false, isProcessing false) currentStep indexes an    *)
(* existing step, 0 <= currentStep < N, so that                            *)
(* automationSteps[currentStep].question can be read.  After the last      *)
(* answer handleSend sets currentStep = N with the form still displayed,   *)
(* so this fails.                                                          *)
(***************************************************************************)
C27_QuestionDefined ==
  (variant \in Guided /\ attached /\ ~automationCreated /\ ~isProcessing)
    => (0 <= currentStep /\ currentStep < NumSteps)

(***************************************************************************)
(* C28.  In every variant automationCreated = true implies that            *)
(* automationYaml is not empty.  The guided variants set automationCreated *)
(* when create_automation resolves and automationYaml only when callApi    *)
(* answers, so this fails.                                                 *)
(***************************************************************************)
C28_DoneHasResultText == automationCreated => automationYaml # ""

(***************************************************************************)
(* C29.  In the guided variants the answered steps are exactly the steps   *)
(* below currentStep: step j has an answer that is not blank for           *)
(* j < currentStep and an empty answer for j >= currentStep.  An answer    *)
(* changes only when the step at currentStep, still empty, receives its    *)
(* answer, or when all answers are cleared: once per session, in order.    *)
(***************************************************************************)
C29_AnswersArePrefix ==
  /\ [](variant \in Guided =>
          \A j \in 1..NumSteps :
            IF j <= currentStep THEN Trim(answers[j]) # <<>> ELSE answers[j] = <<>>)
  /\ [][ answers' # answers =>
           \/ /\ currentStep < NumSteps
              /\ answers[currentStep + 1] = <<>>
              /\ Trim(answers'[currentStep + 1]) # <<>>
              /\ \A j \in 1..NumSteps : j # currentStep + 1 => answers'[j] = answers[j]
              /\ currentStep' = currentStep + 1
           \/ /\ \A j \in 1..NumSteps : answers'[j] = <<>>
              /\ currentStep' = 0 ]_vars

C29_Witness ==
  /\ variant \in Guided
  /\ resetAt = 1
  /\ currentStep = 3
  /\ \A j \in 1..3 : answers[j] = <<" ", "a">>
  /\ \A j \in 4..NumSteps : answers[j] = <<>>

(***************************************************************************)
(* C30.  In an attached guided panel, before a submission is started, the  *)
(* message log mirrors the step counter: at currentStep = i < N it is      *)
(* question 0, answer 0, ..., question i (length 2i+1, senders             *)
(* alternating assistant / user) and at Complete it has length 2N and      *)
(* ends with the last answer; attaching the element again preserves this.  *)
(* part_000's connectedCallback cuts the log back to the first question    *)
(* on every attach, so this fails.                                         *)
(***************************************************************************)
C30_LogMirrorsStep ==
  (variant \in Guided /\ attached /\ nSubmits = 0) =>
    /\ Len(conversation) =
         IF currentStep < NumSteps THEN 2 * currentStep + 1 ELSE 2 * NumSteps
    /\ \A n \in 1..Len(conversation) :
         conversation[n] =
           IF n % 2 = 1 THEN Msg("assistant", <<Question((n + 1) \div 2)>>)
                        ELSE Msg("user", answers[n \div 2])

(***************************************************************************)
(* C31.  Once the guided engine is Complete (currentStep = N), a further   *)
(* handleSend with non-empty text changes nothing: the message log, every  *)
(* step's answer and currentStep are unchanged.  handleSend appends the    *)
(* user message before it reaches automationSteps[N].answer, so the log    *)
(* grows and this fails.                                                   *)
(***************************************************************************)
C31_SendAtCompleteChangesNothing ==
  [][ (variant \in Guided /\ SendEnabled /\ currentStep = NumSteps
         /\ Trim(userInput) # <<>> /\ handleSend)
      => UNCHANGED <<conversation, answers, currentStep>> ]_vars

(***************************************************************************)
(* C32.  In the main.js single-shot panel the phase is well defined: in    *)
(* every reachable state at most one of isProcessing (Submitting),         *)
(* automationCreated (Done) and errorMessage # null (Error) holds.         *)
(***************************************************************************)
C32_PhaseWellDefined ==
  variant = "main_single" =>
    /\ ~(isProcessing /\ automationCreated)
    /\ ~(isProcessing /\ errorMessage # null)
    /\ ~(automationCreated /\ errorMessage # null)

\* Done after an earlier submission of the same session had ended in Error.
C32_Witness ==
  /\ variant = "main_single"
  /\ automationCreated /\ ~isProcessing /\ errorMessage = null
  /\ nSubmits = 2 /\ resetAt = 0
  /\ \E id \in Subs : id = 2 /\ HasOutcome(id)

(***************************************************************************)
(* C33.  The busy flag tracks the work in flight: in every reachable       *)
(* state isProcessing is true exactly when a backend call or a delay timer *)
(* of a submission of this session (one made since the last reset) is      *)
(* pending.  The guided success callback clears the flag and issues        *)
(* callApi in the same step, and part_001's createAutomation accepts a     *)
(* second submission whose call outlives the first response, so this       *)
(* fails.                                                                  *)
(***************************************************************************)
C33_BusyTracksFlight ==
  isProcessing <=> \E id \in (resetAt + 1)..nSubmits : Active(id)

(***************************************************************************)
(* C34.  Reset restores a fresh session and is idempotent: applied in a    *)
(* state where the reset button is offered (Done), reset / startOver       *)
(* leaves the fields of a newly attached panel (guided: the log is the     *)
(* first prompt, currentStep 0, all answers empty; every variant:          *)
(* userInput, automationYaml and the error / result message empty,         *)
(* automationCreated and isProcessing false), and applied again to the     *)
(* state it has produced it changes no field.                              *)
(***************************************************************************)
\* The fields of the element as the constructor and the first attach leave them.
Fresh ==
  /\ userInput = <<>>
  /\ ~isProcessing
  /\ automationYaml = ""
  /\ ~automationCreated
  /\ errorMessage = null
  /\ resultMessage = ""
  /\ currentStep = 0
  /\ answers = [i \in 1..NumSteps |-> <<>>]
  /\ conversation = IF variant \in Guided THEN <<FirstPrompt>> ELSE <<>>
  /\ buttonDisabled

C34_ResetRestoresFresh ==
  [][ (attached /\ Reset) =>
        /\ automationCreated => Fresh'
        /\ Fresh => (Fresh' /\ UNCHANGED <<session, engine, buttonDisabled>>) ]_vars

\* A panel that was reset from Done.
C34_Witness ==
  /\ attached
  /\ Fresh
  /\ nSubmits >= 1 /\ resetAt = nSubmits
  /\ rejected = ""
  /\ \E id \in Subs : \E i \in AtOutcome(id) : subs[id][i].op = "Done"

(***************************************************************************)
(* C35.  In main.js handleError changes only isProcessing (to false) and   *)
(* errorMessage: userInput, automationYaml and automationCreated are       *)
(* unchanged, so after a failed submission the description is still in     *)
(* the form and, when it is not blank, the button is enabled and           *)
(* generateAutomation accepts it again.                                    *)
(***************************************************************************)
C35_HandleErrorFrame ==
  [][ (variant = "main_single" /\ errorMessage = null /\ errorMessage' # null) =>
        /\ ~isProcessing'
        /\ UNCHANGED <<userInput, automationYaml, automationCreated>>
        /\ UNCHANGED <<resultMessage, engine, attached>>
        /\ (attached /\ Trim(userInput) # <<>>) => SubmitEnabled' ]_vars

\* A second submission of the same description, accepted after the first had failed.
C35_Witness ==
  /\ variant = "main_single"
  /\ attached
  /\ isProcessing /\ errorMessage = null
  /\ nSubmits = 2 /\ resetAt = 0
  /\ \E c \in calls : c.id = 2 /\ c.op = "create" /\ c.desc = userInput

====
